---------------------------- MODULE Spec2Model ----------------------------
(***************************************************************************)
(* Model of src/prices.ts: the two spreadsheet custom functions mnb        *)
(* (exchange rate with business-day back-off) and crypto (spot price),     *)
(* the shared script cache they use and the locale-aware number            *)
(* conversion convertNumber_.                                              *)
(*                                                                         *)
(* Strings are sequences of one-character strings.  A JavaScript number is *)
(* a record [nan, m, e]: not-a-number, or the decimal m / 10^e in lowest   *)
(* form (e = 0 or m not divisible by 10).                                  *)
(***************************************************************************)
EXTENDS Integers, Sequences, FiniteSets, TLC

(***************************************************************************)
(* Bounds of the model.                                                    *)
(***************************************************************************)
\* invocations of the custom functions in one behaviour
MaxCalls == 2
\* fetches one mnb invocation may issue before the model stops following it
MaxFetches == 3
\* the same, in the look-back specification (one invocation, long zero run)
MaxLookBack == 11
\* seconds that pass in one step of the clock
TickSec == 150
\* longest raw text, in characters, given to convertNumber_ on its own
MaxTextLen == 4

(***************************************************************************)
(* Characters and strings.                                                 *)
(***************************************************************************)
Digits == <<"0", "1", "2", "3", "4", "5", "6", "7", "8", "9">>

UpperCase == <<"A", "B", "C", "D", "E", "F", "G", "H", "I", "J", "K", "L", "M",
               "N", "O", "P", "Q", "R", "S", "T", "U", "V", "W", "X", "Y", "Z">>

LowerCase == <<"a", "b", "c", "d", "e", "f", "g", "h", "i", "j", "k", "l", "m",
               "n", "o", "p", "q", "r", "s", "t", "u", "v", "w", "x", "y", "z">>

Range(s) == {s[i] : i \in DOMAIN s}

\* the regular expression class \d
IsDigit(c) == c \in Range(Digits)

DigitVal(c) == (CHOOSE i \in DOMAIN Digits : Digits[i] = c) - 1

\* the regular expression class \s, on the characters of the model
IsSpace(c) == c \in {" ", "\t"}

\* String.prototype.toLowerCase, one character
LowerChar(c) ==
    IF c \in Range(UpperCase)
    THEN LowerCase[CHOOSE i \in DOMAIN UpperCase : UpperCase[i] = c]
    ELSE c

toLowerCase(s) == [i \in DOMAIN s |-> LowerChar(s[i])]

RECURSIVE TrimStart(_)
TrimStart(s) ==
    IF s # <<>> /\ IsSpace(Head(s)) THEN TrimStart(Tail(s)) ELSE s

RECURSIVE TrimEnd(_)
TrimEnd(s) ==
    IF s # <<>> /\ IsSpace(s[Len(s)])
    THEN TrimEnd(SubSeq(s, 1, Len(s) - 1))
    ELSE s

\* String.prototype.trim
trim(s) == TrimEnd(TrimStart(s))

\* s.replace(/\s/g, "-")
HyphenateSpaces(s) == [i \in DOMAIN s |-> IF IsSpace(s[i]) THEN "-" ELSE s[i]]

\* s.replace(c, d) with a string pattern: only the first occurrence changes
ReplaceFirst(s, c, d) ==
    IF c \in Range(s)
    THEN LET k == CHOOSE i \in DOMAIN s :
                     s[i] = c /\ \A j \in 1..(i - 1) : s[j] # c
         IN [s EXCEPT ![k] = d]
    ELSE s

RECURSIVE Pow10(_)
Pow10(n) == IF n = 0 THEN 1 ELSE 10 * Pow10(n - 1)

\* decimal digits of a natural number, no leading zeros
RECURSIVE NatToStr(_)
NatToStr(n) ==
    IF n < 10 THEN <<Digits[n + 1]>>
    ELSE Append(NatToStr(n \div 10), Digits[(n % 10) + 1])

\* value of a string of digits (the empty string counts 0)
RECURSIVE StrToNat(_)
StrToNat(s) ==
    IF s = <<>> THEN 0
    ELSE 10 * StrToNat(SubSeq(s, 1, Len(s) - 1)) + DigitVal(s[Len(s)])

RECURSIVE Zeros(_)
Zeros(n) == IF n <= 0 THEN <<>> ELSE <<"0">> \o Zeros(n - 1)

\* n as at least w digits, zero-padded on the left
Pad(n, w) == Zeros(w - Len(NatToStr(n))) \o NatToStr(n)

(***************************************************************************)
(* Numbers: the values of the JavaScript expressions of the program.       *)
(***************************************************************************)
NaN == [nan |-> TRUE, m |-> 0, e |-> 0]

\* m / 10^e in lowest form
RECURSIVE Dec(_, _)
Dec(m, e) ==
    IF e > 0 /\ m % 10 = 0 THEN Dec(m \div 10, e - 1)
    ELSE [nan |-> FALSE, m |-> m, e |-> e]

Zero == Dec(0, 0)

\* The unary plus of prices.ts:142 (ToNumber of a string), on the strings the
\* two replace calls before it can leave: digits, periods and decimal signs.
\* The empty string is 0; digits with at most one period are that decimal;
\* everything else (a lone period, a second period, a left-over decimal
\* sign) is NaN.
StringToNumber(s) ==
    IF s = <<>> THEN Zero
    ELSE IF /\ \A i \in DOMAIN s : IsDigit(s[i]) \/ s[i] = "."
            /\ \E i \in DOMAIN s : IsDigit(s[i])
            /\ Cardinality({i \in DOMAIN s : s[i] = "."}) <= 1
         THEN LET digs  == SelectSeq(s, IsDigit)
                  point == IF "." \in Range(s)
                           THEN CHOOSE i \in DOMAIN s : s[i] = "."
                           ELSE Len(s) + 1
              IN Dec(StrToNat(digs), Len(s) + 1 - point - (IF point <= Len(s) THEN 1 ELSE 0))
         ELSE NaN

\* The template literal `${freshPrice}` of prices.ts:50 and :75
\* (Number::toString, radix 10): with k significant digits and the value
\* 0.d1...dk * 10^n, decimal notation for -6 < n <= 21 and exponent notation
\* otherwise.
NumberToString(x) ==
    IF x.nan THEN <<"N", "a", "N">>
    ELSE IF x.m = 0 THEN <<"0">>
    ELSE LET d == NatToStr(x.m)
             k == Len(d)
             n == k - x.e
         IN IF x.e = 0 /\ k <= 21 THEN d
            ELSE IF 0 < n /\ n <= 21
                 THEN SubSeq(d, 1, n) \o <<".">> \o SubSeq(d, n + 1, k)
            ELSE IF -6 < n /\ n <= 0
                 THEN <<"0", ".">> \o Zeros(-n) \o d
            ELSE LET ex == IF n - 1 < 0
                           THEN <<"e", "-">> \o NatToStr(1 - n)
                           ELSE <<"e", "+">> \o NatToStr(n - 1)
                 IN IF k = 1 THEN d \o ex
                    ELSE <<d[1], ".">> \o SubSeq(d, 2, k) \o ex

(***************************************************************************)
(* convertNumber_ (prices.ts:137-146).                                     *)
(***************************************************************************)
huHU == "hu-HU"
enUS == "en-US"
arEG == "ar-EG"

\* The locale data of the runtime: the locales whose numbers it renders with
\* other digits than 0-9.  It does not change while the script runs.
VARIABLE nonLatin

\* new Intl.NumberFormat(locale).format(0.1): Hungarian writes a decimal
\* comma, US English a decimal point; a locale of nonLatin (Egyptian Arabic
\* in every runtime) writes its own digits around its own decimal
\* separator, given here in Latin transcription.
FormatTenth(locale) ==
    CASE locale \in nonLatin -> <<"sifr", "fasila", "wahid">>
      [] locale = huHU       -> <<"0", ",", "1">>
      [] locale = enUS       -> <<"0", ".", "1">>
      [] OTHER               -> <<"sifr", "fasila", "wahid">>

\* /^0(.)1$/.exec(...)
MatchesTenth(f) == Len(f) = 3 /\ f[1] = "0" /\ f[3] = "1"

ConversionError == "Error during converting number."

\* [ok |-> FALSE, ...] is the thrown Error
Thrown(msg) == [ok |-> FALSE, val |-> Zero, err |-> msg]

Returned(x) == [ok |-> TRUE, val |-> x, err |-> ""]

\* a bug to compare with: the regular expression lacks its g flag, so only
\* the first character that is neither the decimal sign nor a digit goes
convertNumber_NoGlobalFlag(numStr, locale) ==
    LET f == FormatTenth(locale)
    IN IF MatchesTenth(f)
       THEN LET bad  == {i \in DOMAIN numStr : ~(numStr[i] = f[2] \/ IsDigit(numStr[i]))}
                kept == IF bad = {} THEN numStr
                        ELSE LET k == CHOOSE i \in bad : \A j \in bad : i <= j
                             IN SubSeq(numStr, 1, k - 1) \o SubSeq(numStr, k + 1, Len(numStr))
            IN Returned(StringToNumber(ReplaceFirst(kept, f[2], ".")))
       ELSE Thrown(ConversionError)

\* a bug to compare with: when the rendering of 0.1 does not match, the
\* period is taken for the decimal sign
convertNumber_DefaultSign(numStr, locale) ==
    LET f == FormatTenth(locale)
        decimalSign == IF MatchesTenth(f) THEN f[2] ELSE "."
        kept == SelectSeq(numStr, LAMBDA c : c = decimalSign \/ IsDigit(c))
    IN Returned(StringToNumber(ReplaceFirst(kept, decimalSign, ".")))

convertNumber_(numStr, locale) ==
    LET f == FormatTenth(locale)
    IN IF MatchesTenth(f)
       THEN LET decimalSign == f[2]
                kept == SelectSeq(numStr, LAMBDA c : c = decimalSign \/ IsDigit(c))
            IN Returned(StringToNumber(ReplaceFirst(kept, decimalSign, ".")))
       ELSE Thrown(ConversionError)

(***************************************************************************)
(* Dates.  A Date object of the program holds local midnight of a calendar *)
(* day; it is modelled by the number of that day, counted from 1970-01-01. *)
(***************************************************************************)
\* civil date to day number (what the Date constructor computes)
DaysFromCivil(y, m, d) ==
    LET yy  == IF m <= 2 THEN y - 1 ELSE y
        era == yy \div 400
        yoe == yy - era * 400
        mp  == IF m > 2 THEN m - 3 ELSE m + 9
        doy == (153 * mp + 2) \div 5 + d - 1
        doe == yoe * 365 + yoe \div 4 - yoe \div 100 + doy
    IN era * 146097 + doe - 719468

\* day number to civil date <<y, m, d>> (what toLocaleDateString reads)
CivilFromDays(z) ==
    LET zz  == z + 719468
        era == zz \div 146097
        doe == zz - era * 146097
        yoe == (doe - doe \div 1460 + doe \div 36524 - doe \div 146096) \div 365
        doy == doe - (365 * yoe + yoe \div 4 - yoe \div 100)
        mp  == (5 * doy + 2) \div 153
        d   == doy - (153 * mp + 2) \div 5 + 1
        m   == IF mp < 10 THEN mp + 3 ELSE mp - 9
        y   == yoe + era * 400
    IN <<IF m <= 2 THEN y + 1 ELSE y, m, d>>

\* new Date(dateStr) for a string "YYYY.MM.DD.": three numbers, the first
\* the year, read as local midnight of that day
ParseDate(dateStr) ==
    DaysFromCivil(StrToNat(SubSeq(dateStr, 1, 4)),
                  StrToNat(SubSeq(dateStr, 6, 7)),
                  StrToNat(SubSeq(dateStr, 9, 10)))

\* Date.prototype.getDay: 0 is Sunday, 6 is Saturday (1970-01-01 was a Thursday)
getDay(date) == (date + 4) % 7

\* date.setDate(date.getDate() - n)
MinusDays(date, n) == date - n

\* prices.ts:99-109: "2024. 03. 01." in the Hungarian locale, blanks removed
formatDate_(date) ==
    LET c == CivilFromDays(date)
    IN Pad(c[1], 4) \o <<".">> \o Pad(c[2], 2) \o <<".">> \o Pad(c[3], 2) \o <<".">>

\* a bug to compare with: the Sunday is rolled back by one day only
backDate_SundayOneDay(dateStr) ==
    LET date == ParseDate(dateStr)
        offset == IF getDay(date) \in {0, 6} THEN 1 ELSE 0
    IN formatDate_(MinusDays(date, offset))

\* prices.ts:83-97
backDate_(dateStr) ==
    LET date    == ParseDate(dateStr)
        offset0 == 0
        offset1 == IF getDay(date) = 6 THEN 1 ELSE offset0
        offset  == IF getDay(date) = 0 THEN 2 ELSE offset1
    IN formatDate_(MinusDays(date, offset))

(***************************************************************************)
(* Selectors and cache keys.                                               *)
(***************************************************************************)
GBP == <<"G", "B", "P">>
USD == <<"U", "S", "D">>
EUR == <<"E", "U", "R">>
\* not a member of the type Currency; a sheet can still pass it at run time
CHF == <<"C", "H", "F">>

Unreachable == "Statement should be unreachable!"

\* a bug to compare with: the switch has no default branch, an unknown
\* currency keeps the initial index 0
priceSelector_NoDefault(currency) ==
    CASE currency = GBP -> [ok |-> TRUE, index |-> 24, err |-> ""]
      [] currency = USD -> [ok |-> TRUE, index |-> 71, err |-> ""]
      [] currency = EUR -> [ok |-> TRUE, index |-> 21, err |-> ""]
      [] OTHER          -> [ok |-> TRUE, index |-> 0, err |-> ""]

\* prices.ts:151-167 with assertUnreachable_ (175-177): the column of the
\* currency in the table row, or the Error thrown in the default branch
priceSelector_(currency) ==
    CASE currency = GBP -> [ok |-> TRUE, index |-> 24, err |-> ""]
      [] currency = USD -> [ok |-> TRUE, index |-> 71, err |-> ""]
      [] currency = EUR -> [ok |-> TRUE, index |-> 21, err |-> ""]
      [] OTHER          -> [ok |-> FALSE, index |-> 0, err |-> Unreachable]

\* prices.ts:6
cacheTimeoutInSec == 5 * 60

\* a bug to compare with: the key is built from the rolled-back date
MnbCacheKey_RolledBack(currency, dateStr) == currency \o <<"_">> \o backDate_(dateStr)

\* prices.ts:27: `${currency}_${dateStr}`
MnbCacheKey(currency, dateStr) == currency \o <<"_">> \o dateStr

\* prices.ts:63
HyphenedName(name) == HyphenateSpaces(trim(name))

\* a bug to compare with: the key keeps the capitals of the name
CryptoCacheKey_NoLowerCase(name) == HyphenedName(name)

\* prices.ts:65
CryptoCacheKey(name) == toLowerCase(HyphenedName(name))

\* the request a fetch is for: the site and the variable tail of the URL
MnbUrl(dateStr) == [site |-> "mnb", tail |-> dateStr]

CryptoUrl(slug) == [site |-> "coinmarketcap", tail |-> slug]

(***************************************************************************)
(* Inputs and environment.                                                 *)
(***************************************************************************)
CurrencyInputs == {GBP, USD, EUR, CHF}

\* Fri 2024.03.01., Sat 2024.03.02., Sun 2024.03.03., Mon 2024.03.04.: the
\* days before them are Thu 2024.02.29. (a leap day) and earlier
DateInputs ==
    { <<"2", "0", "2", "4", ".", "0", "3", ".", "0", "1", ".">>,
      <<"2", "0", "2", "4", ".", "0", "3", ".", "0", "2", ".">>,
      <<"2", "0", "2", "4", ".", "0", "3", ".", "0", "3", ".">>,
      <<"2", "0", "2", "4", ".", "0", "3", ".", "0", "4", ".">> }

NameInputs ==
    { <<"b", "i", "t", "c", "o", "i", "n">>,
      <<"B", "i", "t", "c", "o", "i", "n">>,
      <<" ", "M", "e", "d", "i", "e", "v", "a", "l", "\t", "E", "m", "p", "i", "r", "e", "s", " ">>,
      <<"M", "e", "d", "i", "e", "v", "a", "l", " ", "E", "m", "p", "i", "r", "e", "s">>,
      <<"G", "B", "P", "_", "2", "0", "2", "4", ".", "0", "3", ".", "0", "1", ".">> }

\* what the selected table cells of an MNB page can read: nothing (no row, a
\* holiday), a rate, and the cells of two rows run together
MnbTexts ==
    { <<>>,
      <<"4", "1", "4", ",", "5", "0">>,
      <<"3", "8", "5", ",", "1", "3", "9", "0", ",", "2">> }

\* what the price element of a coinmarketcap page can read: nothing, a price
\* with a thousands comma, and a price below a millionth
CryptoTexts ==
    { <<>>,
      <<"$", "1", ",", "2", "3", "4", ".", "5", "6">>,
      <<"$", "0", ".", "0", "0", "0", "0", "0", "0", "7">> }

TransportError == "TransportError"

(***************************************************************************)
(* State.                                                                  *)
(***************************************************************************)
VARIABLES
    cache,    \* the script cache: key -> [value, ttl, quote]; ttl is the time
              \* left in seconds, quote the number the writing call returned
    inv,      \* the invocations: inv[p] is the position and the locals of p
    calls,    \* invocations started so far
    numStr,   \* convertNumber_ on its own: the raw text,
    locale,   \*   the locale,
    conv      \*   and [done, out]: whether it was called and the outcome

vars == <<cache, inv, calls, numStr, locale, conv, nonLatin>>

\* the invocations that can be in progress together
Procs == {1, 2}

Finished(p) == inv[p].pc \in {"idle", "done", "failed"}

\* CacheService.getScriptCache().get(key): the value, or null (here <<>>,
\* which is as falsy as null in the test of prices.ts:30 and :68)
CacheGet(key) == IF key \in DOMAIN cache THEN cache[key].value ELSE <<>>

\* CacheService.getScriptCache().put(key, value, expirationInSeconds)
\* (quote and by are not part of the entry: they record the number whose
\* text the value is and the function that put it)
CachePut(c, key, value, seconds, quote, by) ==
    [k \in (DOMAIN c) \cup {key} |->
        IF k = key
        THEN [value |-> value, ttl |-> seconds, quote |-> quote, by |-> by]
        ELSE c[k]]

EmptyCache == [k \in {} |-> 0]

\* an invocation that has not started; fetched, replies, served and puts
\* record, for the invocation in progress, the requests it issued, what came
\* back for each (a failure or the selected text), the quotes the texts
\* normalised to and the cache writes it made; cacheAtCall is the cache as
\* it was when the invocation started
Idle ==
    [pc |-> "idle", fn |-> "", currency |-> <<>>, dateStr |-> <<>>, name |-> <<>>,
     cacheKey |-> <<>>, hit |-> FALSE, weekdayDateOrHolidayStr |-> <<>>,
     hyphenedName |-> <<>>, freshPrice |-> Zero,
     fetched |-> <<>>, replies |-> <<>>, served |-> <<>>, puts |-> <<>>,
     returned |-> FALSE, result |-> Zero, error |-> "", cacheAtCall |-> EmptyCache]

NotConverted == [done |-> FALSE, out |-> Returned(Zero)]

(***************************************************************************)
(* Initial state.                                                          *)
(***************************************************************************)
Init ==
    /\ cache = EmptyCache
    /\ inv = [p \in Procs |-> Idle]
    /\ calls = 0
    /\ numStr = <<>>
    /\ locale = enUS
    /\ conv = NotConverted
    /\ nonLatin = {arEG}

FetchThrew == [failed |-> TRUE, text |-> <<>>]

FetchGave(text) == [failed |-> FALSE, text |-> text]

\* a bug to compare with: the failed fetch is swallowed and tried again
cheerioLoadThrows_Retry(asked) ==
    [asked EXCEPT !.replies = Append(asked.replies, FetchThrew)]

\* prices.ts:172-173 when UrlFetchApp.fetch throws: nothing catches the
\* exception, the invocation ends with it
cheerioLoadThrows(asked) ==
    [asked EXCEPT !.replies = Append(asked.replies, FetchThrew),
                  !.pc = "failed", !.error = TransportError]

(***************************************************************************)
(* mnb (prices.ts:21-52).                                                  *)
(***************************************************************************)
\* prices.ts:27-34: the cache look-up; on a hit the cached text is converted
\* and returned, on a miss the loop is entered at the rolled-back date
MnbCall(p, currency, dateStr) ==
    /\ Finished(p)
    /\ calls < MaxCalls
    /\ calls' = calls + 1
    /\ LET cacheKey    == MnbCacheKey(currency, dateStr)
           cachedPrice == CacheGet(cacheKey)
           start == [Idle EXCEPT !.fn = "mnb", !.currency = currency,
                                 !.dateStr = dateStr, !.cacheKey = cacheKey,
                                 !.cacheAtCall = cache]
       IN IF cachedPrice # <<>>
          THEN LET r == convertNumber_(cachedPrice, enUS)
               IN inv' = [inv EXCEPT ![p] =
                    IF r.ok
                    THEN [start EXCEPT !.pc = "done", !.hit = TRUE,
                                       !.returned = TRUE, !.result = r.val]
                    ELSE [start EXCEPT !.pc = "failed", !.hit = TRUE,
                                       !.error = r.err]]
          ELSE inv' = [inv EXCEPT ![p] =
                    [start EXCEPT !.pc = "loop", !.freshPrice = Zero,
                                  !.weekdayDateOrHolidayStr = backDate_(dateStr)]]
    /\ UNCHANGED <<cache, numStr, locale, conv, nonLatin>>

\* a bug to compare with: a page without the price is an error
readMNBPrice_EmptyThrows(currency, text) ==
    LET sel == priceSelector_(currency)
    IN IF ~sel.ok THEN Thrown(sel.err)
       ELSE IF text = <<>> THEN Thrown(ConversionError)
       ELSE convertNumber_(text, huHU)

\* prices.ts:111-121 after the fetch: the selector, then the conversion of
\* the selected text in the Hungarian locale
readMNBPrice_(currency, text) ==
    LET sel == priceSelector_(currency)
    IN IF sel.ok THEN convertNumber_(text, huHU) ELSE Thrown(sel.err)

\* a bug to compare with: the day before is rolled back to a Friday when it
\* is a Saturday or a Sunday
DecreaseOneDay_ToWeekday(dateStr) ==
    backDate_(formatDate_(MinusDays(ParseDate(dateStr), 1)))

\* prices.ts:42-46: the candidate date one calendar day earlier
DecreaseOneDay(dateStr) ==
    LET weekdayDateOrHoliday == ParseDate(dateStr)
    IN formatDate_(MinusDays(weekdayDateOrHoliday, 1))

\* a bug to compare with: a price that is not a number is taken for a
\* holiday too
LoopAgain_NaNIsHoliday(freshPrice) == freshPrice = Zero \/ freshPrice.nan

\* the test of the do-while loop, prices.ts:47: TRUE when the loop goes on
LoopAgain(freshPrice) == freshPrice = Zero

\* prices.ts:36-47, one iteration of the loop: fetch the page of the
\* candidate date (the fetch may throw), read the price, step the candidate
\* date back by a day, test the price
MnbFetch(p, cap) ==
    /\ inv[p].pc = "loop"
    /\ Len(inv[p].fetched) < cap
    /\ LET me  == inv[p]
           url == MnbUrl(me.weekdayDateOrHolidayStr)
           asked == [me EXCEPT !.fetched = Append(me.fetched, url)]
       IN \/ inv' = [inv EXCEPT ![p] = cheerioLoadThrows(asked)]
          \/ \E text \in MnbTexts :
                LET r == readMNBPrice_(me.currency, text)
                    got == [asked EXCEPT !.replies = Append(me.replies, FetchGave(text))]
                IN inv' = [inv EXCEPT ![p] =
                     IF r.ok
                     THEN [got EXCEPT
                             !.freshPrice = r.val,
                             !.served = Append(me.served, r.val),
                             !.weekdayDateOrHolidayStr =
                                 DecreaseOneDay(me.weekdayDateOrHolidayStr),
                             !.pc = IF LoopAgain(r.val) THEN "loop" ELSE "put"]
                     ELSE [got EXCEPT !.pc = "failed", !.error = r.err]]
    /\ UNCHANGED <<cache, calls, numStr, locale, conv, nonLatin>>

\* prices.ts:50-51
MnbPut(p) ==
    /\ inv[p].pc = "put"
    /\ LET me    == inv[p]
           value == NumberToString(me.freshPrice)
       IN /\ cache' = CachePut(cache, me.cacheKey, value, cacheTimeoutInSec,
                             me.freshPrice, me.fn)
          /\ inv' = [inv EXCEPT ![p] =
               [me EXCEPT !.pc = "done", !.returned = TRUE, !.result = me.freshPrice,
                          !.puts = Append(me.puts,
                              [key |-> me.cacheKey, value |-> value,
                               seconds |-> cacheTimeoutInSec])]]
    /\ UNCHANGED <<calls, numStr, locale, conv, nonLatin>>

(***************************************************************************)
(* crypto (prices.ts:61-78).                                               *)
(***************************************************************************)
\* the tail of the URL that crypto fetches, prices.ts:71-73
CryptoFetchSlug(name) == HyphenedName(name)

\* prices.ts:63-68
CryptoCall(p, name) ==
    /\ Finished(p)
    /\ calls < MaxCalls
    /\ calls' = calls + 1
    /\ LET cacheKey    == CryptoCacheKey(name)
           cachedPrice == CacheGet(cacheKey)
           start == [Idle EXCEPT !.fn = "crypto", !.name = name,
                                 !.hyphenedName = HyphenedName(name),
                                 !.cacheKey = cacheKey, !.cacheAtCall = cache]
       IN IF cachedPrice # <<>>
          THEN LET r == convertNumber_(cachedPrice, enUS)
               IN inv' = [inv EXCEPT ![p] =
                    IF r.ok
                    THEN [start EXCEPT !.pc = "done", !.hit = TRUE,
                                       !.returned = TRUE, !.result = r.val]
                    ELSE [start EXCEPT !.pc = "failed", !.hit = TRUE,
                                       !.error = r.err]]
          ELSE inv' = [inv EXCEPT ![p] = [start EXCEPT !.pc = "cfetch"]]
    /\ UNCHANGED <<cache, numStr, locale, conv, nonLatin>>

\* prices.ts:123-132 after the fetch: the conversion of the selected text in
\* the default locale
readCryptoPrice_(text) == convertNumber_(text, enUS)

\* prices.ts:71-73: the one fetch (it may throw) and the reading of the price
CryptoFetch(p) ==
    /\ inv[p].pc = "cfetch"
    /\ LET me  == inv[p]
           url == CryptoUrl(CryptoFetchSlug(me.name))
           asked == [me EXCEPT !.fetched = Append(me.fetched, url)]
       IN \/ inv' = [inv EXCEPT ![p] = cheerioLoadThrows(asked)]
          \/ \E text \in CryptoTexts :
                LET r == readCryptoPrice_(text)
                    got == [asked EXCEPT !.replies = Append(me.replies, FetchGave(text))]
                IN inv' = [inv EXCEPT ![p] =
                     IF r.ok
                     THEN [got EXCEPT !.freshPrice = r.val,
                                        !.served = Append(me.served, r.val),
                                        !.pc = "cput"]
                     ELSE [got EXCEPT !.pc = "failed", !.error = r.err]]
    /\ UNCHANGED <<cache, calls, numStr, locale, conv, nonLatin>>

\* prices.ts:75-77
CryptoPut(p) ==
    /\ inv[p].pc = "cput"
    /\ LET me    == inv[p]
           value == NumberToString(me.freshPrice)
       IN /\ cache' = CachePut(cache, me.cacheKey, value, cacheTimeoutInSec,
                             me.freshPrice, me.fn)
          /\ inv' = [inv EXCEPT ![p] =
               [me EXCEPT !.pc = "done", !.returned = TRUE, !.result = me.freshPrice,
                          !.puts = Append(me.puts,
                              [key |-> me.cacheKey, value |-> value,
                               seconds |-> cacheTimeoutInSec])]]
    /\ UNCHANGED <<calls, numStr, locale, conv, nonLatin>>

(***************************************************************************)
(* The clock of the cache service.                                         *)
(***************************************************************************)
\* Between invocations TickSec seconds pass: every entry has that much less
\* to live and the entries whose time is up are gone.  The finished
\* invocations have handed their results to the sheet.
Tick ==
    /\ \A p \in Procs : Finished(p)
    /\ cache # EmptyCache
    /\ LET live == {k \in DOMAIN cache : cache[k].ttl > TickSec}
       IN cache' = [k \in live |-> [cache[k] EXCEPT !.ttl = @ - TickSec]]
    /\ inv' = [p \in Procs |-> Idle]
    /\ UNCHANGED <<calls, numStr, locale, conv, nonLatin>>

(***************************************************************************)
(* Specifications.                                                         *)
(***************************************************************************)
\* the invocation of the sequential specifications: the first one
Main == CHOOSE p \in Procs : \A q \in Procs : p <= q

\* The custom functions called one after the other, as section 5 of the
\* design has it.
Next ==
    \/ \E currency \in CurrencyInputs, dateStr \in DateInputs :
          MnbCall(Main, currency, dateStr)
    \/ MnbFetch(Main, MaxFetches)
    \/ MnbPut(Main)
    \/ \E name \in NameInputs : CryptoCall(Main, name)
    \/ CryptoFetch(Main)
    \/ CryptoPut(Main)
    \/ Tick

Spec == Init /\ [][Next]_vars

\* One invocation of mnb, followed through a long run of days without a rate.
LookBackNext ==
    \/ \E currency \in CurrencyInputs, dateStr \in DateInputs :
          MnbCall(Main, currency, dateStr)
    \/ MnbFetch(Main, MaxLookBack)
    \/ MnbPut(Main)

LookBackInit ==
    /\ cache = EmptyCache
    /\ inv = [p \in Procs |-> Idle]
    /\ calls = MaxCalls - 1
    /\ numStr = <<>>
    /\ locale = enUS
    /\ conv = NotConverted
    /\ nonLatin = {arEG}

LookBackSpec == LookBackInit /\ [][LookBackNext]_vars

\* convertNumber_ on its own: one call on a raw text in a locale.
TextChars == {"0", "1", "5", ",", ".", " "}

\* every text of at most MaxTextLen characters, and the two of section 8
TextInputs ==
    UNION {[1..n -> TextChars] : n \in 0..MaxTextLen}
    \cup { <<"1", " ", "2", "3", "4", ",", "5", "6">>,
           <<"1", ",", "2", "3", "4", ".", "5", "6">>,
           <<"4", "1", "4", ",", "5", "0", " ", "F", "t">> }

LocaleInputs == {huHU, enUS, arEG}

ConvInit ==
    /\ cache = EmptyCache
    /\ inv = [p \in Procs |-> Idle]
    /\ calls = 0
    /\ numStr \in TextInputs
    /\ locale \in LocaleInputs
    /\ conv = NotConverted
    /\ nonLatin = {arEG}

Convert ==
    /\ ~conv.done
    /\ conv' = [done |-> TRUE, out |-> convertNumber_(numStr, locale)]
    /\ UNCHANGED <<cache, inv, calls, numStr, locale, nonLatin>>

ConvNext == Convert

ConvSpec == ConvInit /\ [][ConvNext]_vars

\* The custom functions and convertNumber_ in a runtime whose locale data may
\* render Hungarian or US English numbers with other digits: either one
\* conversion of a raw text, or two invocations.
LocaleInit ==
    /\ cache = EmptyCache
    /\ inv = [p \in Procs |-> Idle]
    /\ conv = NotConverted
    /\ nonLatin \in {{arEG}, {arEG, huHU}, {arEG, enUS}}
    /\ \/ numStr \in TextInputs /\ locale \in LocaleInputs /\ calls = MaxCalls
       \/ numStr = <<>> /\ locale = enUS /\ calls = MaxCalls - 2

LocaleNext == Next \/ Convert

LocaleSpec == LocaleInit /\ [][LocaleNext]_vars

\* Two invocations of mnb, each started once by its own sheet cell, running
\* at the same time against the one script cache: the get, each fetch and the
\* put of one may fall between those of the other.
ConcNext ==
    \E p \in Procs :
        \/ \E currency \in CurrencyInputs, dateStr \in DateInputs :
              inv[p].pc = "idle" /\ MnbCall(p, currency, dateStr)
        \/ MnbFetch(p, MaxFetches)
        \/ MnbPut(p)

ConcSpec == Init /\ [][ConcNext]_vars

(***************************************************************************)
(* The calendar, computed on year, month and day, for the statements about *)
(* dates.                                                                  *)
(***************************************************************************)
CivilOf(dateStr) ==
    <<StrToNat(SubSeq(dateStr, 1, 4)), StrToNat(SubSeq(dateStr, 6, 7)),
      StrToNat(SubSeq(dateStr, 9, 10))>>

MonthShift == <<0, 3, 2, 5, 0, 3, 5, 1, 4, 6, 2, 4>>

\* 0 is Sunday, 6 is Saturday
DayOfWeek(c) ==
    LET y == IF c[2] < 3 THEN c[1] - 1 ELSE c[1]
    IN (y + y \div 4 - y \div 100 + y \div 400 + MonthShift[c[2]] + c[3]) % 7

IsLeapYear(y) == (y % 4 = 0 /\ y % 100 # 0) \/ y % 400 = 0

DaysInMonth(y, m) ==
    IF m = 2 THEN (IF IsLeapYear(y) THEN 29 ELSE 28)
    ELSE IF m \in {4, 6, 9, 11} THEN 30 ELSE 31

PrevCivil(c) ==
    IF c[3] > 1 THEN <<c[1], c[2], c[3] - 1>>
    ELSE IF c[2] > 1 THEN <<c[1], c[2] - 1, DaysInMonth(c[1], c[2] - 1)>>
    ELSE <<c[1] - 1, 12, 31>>

RECURSIVE CivilMinus(_, _)
CivilMinus(c, n) == IF n = 0 THEN c ELSE CivilMinus(PrevCivil(c), n - 1)

Render(c) ==
    Pad(c[1], 4) \o <<".">> \o Pad(c[2], 2) \o <<".">> \o Pad(c[3], 2) \o <<".">>

\* the first business-day candidate for a requested date
FirstCandidate(dateStr) ==
    LET c == CivilOf(dateStr)
    IN CASE DayOfWeek(c) = 6 -> CivilMinus(c, 1)
         [] DayOfWeek(c) = 0 -> CivilMinus(c, 2)
         [] OTHER            -> c

(***************************************************************************)
(* Statements.                                                             *)
(***************************************************************************)
\* C1: on a cache miss, mnb returns the first non-zero quote of the quotes
\* served for the successively earlier dates, after exactly as many fetches
\* as the position of that quote; every quote before it is zero and no fetch
\* follows a non-zero quote.
C1_FirstNonZeroQuote ==
    \A p \in Procs :
        LET me == inv[p]
            n  == Len(me.served)
        IN (me.fn = "mnb" /\ ~me.hit) =>
              /\ \A i \in 1..(n - 1) : me.served[i] = Zero
              /\ (n > 0 /\ me.served[n] # Zero) => Len(me.fetched) = n
              /\ me.returned =>
                    /\ n > 0
                    /\ me.served[n] # Zero
                    /\ me.result = me.served[n]
                    /\ Len(me.fetched) = n

\* quotes 0, 0, 414.5 gave 414.5 after three fetches
C1_Witness ==
    \E p \in Procs :
        /\ inv[p].fn = "mnb" /\ inv[p].pc = "done" /\ ~inv[p].hit
        /\ inv[p].served = <<Zero, Zero, Dec(4145, 1)>>
        /\ inv[p].result = Dec(4145, 1)
        /\ Len(inv[p].fetched) = 3

\* C2: the first fetch of mnb is for the requested date when that is Monday
\* to Friday, for the Friday before it when it is a Saturday (one day back)
\* or a Sunday (two days back); the candidate is rolled back before any
\* fetch, and the first fetched date is never a Saturday or a Sunday.
C2_FirstFetchDate ==
    \A p \in Procs :
        LET me == inv[p]
        IN /\ (me.fn = "mnb" /\ me.pc = "loop" /\ me.fetched = <<>>) =>
                 me.weekdayDateOrHolidayStr = Render(FirstCandidate(me.dateStr))
           /\ (me.fn = "mnb" /\ me.fetched # <<>>) =>
                 /\ me.fetched[1] = MnbUrl(Render(FirstCandidate(me.dateStr)))
                 /\ DayOfWeek(CivilOf(me.fetched[1].tail)) \in 1..5

\* a Sunday was requested and a fetch was issued
C2_Witness ==
    \E p \in Procs :
        /\ inv[p].fn = "mnb" /\ inv[p].fetched # <<>>
        /\ DayOfWeek(CivilOf(inv[p].dateStr)) = 0

\* C3: a second mnb call for the same currency and date, while the entry of
\* the first has not expired, issues no fetch and returns the very value the
\* call that wrote the entry returned, whatever that value is.
C3_CacheRoundTrip ==
    \A p \in Procs :
        LET me == inv[p]
        IN (me.fn = "mnb" /\ me.hit /\ me.pc \in {"done", "failed"}) =>
              /\ me.fetched = <<>>
              /\ me.returned
              /\ me.result = me.cacheAtCall[me.cacheKey].quote

\* C4: when every fetched date yields a zero quote, mnb ends with an explicit
\* error after a bounded number of look-back attempts: once ten dates (the
\* look-back of section 4.1) have given zero, the call has failed and is not
\* about to fetch again.
C4_ZeroRunEndsInError ==
    \A p \in Procs :
        LET me == inv[p]
        IN (/\ me.fn = "mnb"
            /\ Len(me.served) >= 10
            /\ \A i \in DOMAIN me.served : me.served[i] = Zero) =>
              (me.pc = "failed" /\ me.error # "")

\* C5: the slug crypto puts in the URL it fetches is the trimmed name with
\* its whitespace replaced by hyphens, in lower case; "Medieval Empires"
\* gives medieval-empires.
C5_FetchSlugLowerCase ==
    \A p \in Procs :
        LET me == inv[p]
        IN (me.fn = "crypto" /\ me.fetched # <<>>) =>
              /\ me.fetched[1].tail = toLowerCase(HyphenateSpaces(trim(me.name)))
              /\ me.name = <<"M", "e", "d", "i", "e", "v", "a", "l", " ",
                             "E", "m", "p", "i", "r", "e", "s">> =>
                    me.fetched[1].tail =
                        <<"m", "e", "d", "i", "e", "v", "a", "l", "-",
                          "e", "m", "p", "i", "r", "e", "s">>

\* the cache c with the entry of key replaced by value, good for seconds
\* seconds, and nothing else touched
OnlyWrote(c, before, key, value, seconds) ==
    /\ DOMAIN c = (DOMAIN before) \cup {key}
    /\ c[key].value = value
    /\ c[key].ttl = seconds
    /\ \A k \in (DOMAIN before) \ {key} : c[k] = before[k]

\* C6: a resolving mnb call that misses the cache puts once, after its last
\* fetch: key currency_date with the date as requested (not the rolled-back
\* date, not a back-off date), value the text of the quote it returns, expiry
\* 300 seconds, and no other entry changes; before that put, and in a call
\* that hits the cache, there is no put and the cache with its expiries is
\* as it was when the call started.
C6_OnePutUnderRequestedDate ==
    \A p \in Procs :
        LET me  == inv[p]
            key == me.currency \o <<"_">> \o me.dateStr
        IN me.fn = "mnb" =>
              /\ (me.pc = "done" /\ ~me.hit) =>
                    /\ me.puts = <<[key |-> key, value |-> NumberToString(me.result),
                                    seconds |-> 300]>>
                    /\ OnlyWrote(cache, me.cacheAtCall, key,
                                 NumberToString(me.result), 300)
                    /\ me.fetched # <<>>
              /\ (me.pc # "done" \/ me.hit) =>
                    /\ me.puts = <<>>
                    /\ cache = me.cacheAtCall

\* a Sunday was requested, the Friday and the Thursday before it were
\* fetched, and the one entry of the cache is under the Sunday
C6_Witness ==
    \E p \in Procs :
        /\ inv[p].fn = "mnb" /\ inv[p].pc = "done" /\ ~inv[p].hit
        /\ DayOfWeek(CivilOf(inv[p].dateStr)) = 0
        /\ Len(inv[p].fetched) = 2
        /\ DOMAIN cache = {inv[p].currency \o <<"_">> \o inv[p].dateStr}

\* C7: a fetch that fails, in any iteration of mnb or in the one fetch of
\* crypto, is the last fetch of the call: the call has ended with the
\* transport error, has returned nothing and has left the cache as it was
\* before the call.
C7_TransportErrorIsFatal ==
    \A p \in Procs :
        LET me == inv[p]
        IN \A i \in DOMAIN me.replies :
              me.replies[i].failed =>
                 /\ i = Len(me.replies)
                 /\ Len(me.fetched) = i
                 /\ me.pc = "failed"
                 /\ me.error = TransportError
                 /\ ~me.returned
                 /\ me.puts = <<>>
                 /\ cache = me.cacheAtCall

\* the second fetch of an mnb call failed while the cache held an entry
C7_Witness ==
    \E p \in Procs :
        /\ inv[p].fn = "mnb" /\ inv[p].pc = "failed"
        /\ Len(inv[p].replies) = 2 /\ inv[p].replies[2].failed
        /\ cache # EmptyCache

\* C8: crypto on a miss fetches once and puts once (key the lower-cased slug,
\* value the returned quote, 300 seconds); on a hit it neither fetches nor
\* puts and returns the quote the writing call returned.
C8_CryptoOneFetchOnePut ==
    \A p \in Procs :
        LET me  == inv[p]
            key == toLowerCase(HyphenateSpaces(trim(me.name)))
        IN (me.fn = "crypto" /\ me.pc = "done") =>
              /\ ~me.hit =>
                    /\ Len(me.fetched) = 1
                    /\ me.puts = <<[key |-> key, value |-> NumberToString(me.result),
                                    seconds |-> 300]>>
                    /\ OnlyWrote(cache, me.cacheAtCall, key,
                                 NumberToString(me.result), 300)
              /\ me.hit =>
                    /\ me.fetched = <<>>
                    /\ me.puts = <<>>
                    /\ cache = me.cacheAtCall
                    /\ me.result = me.cacheAtCall[key].quote

\* C9: on the crypto path a selector that matches nothing is fatal: the call
\* fails, returns no quote and stores none.
C9_EmptyExtractionIsError ==
    \A p \in Procs :
        LET me == inv[p]
        IN (/\ me.fn = "crypto"
            /\ me.replies # <<>>
            /\ ~me.replies[1].failed
            /\ me.replies[1].text = <<>>) =>
              /\ me.pc = "failed"
              /\ ~me.returned
              /\ me.puts = <<>>
              /\ cache = me.cacheAtCall

\* the number the digits of text at the positions idx spell, in order
RECURSIVE DigitsValue(_, _)
DigitsValue(text, idx) ==
    IF idx = {} THEN 0
    ELSE LET last == CHOOSE i \in idx : \A j \in idx : j <= i
         IN 10 * DigitsValue(text, idx \ {last}) + DigitVal(text[last])

\* The decimal that text spells once every character that is neither a digit
\* nor the separator sep is deleted and sep is read as the decimal point:
\* nothing left is 0, digits around at most one separator are that decimal,
\* and what is no decimal (a second separator, a separator without a digit)
\* is not a number.
ExpectedNumber(text, sep) ==
    LET seps == {i \in DOMAIN text : text[i] = sep}
        digs == {i \in DOMAIN text : IsDigit(text[i])}
    IN IF seps \cup digs = {} THEN Zero
       ELSE IF Cardinality(seps) > 1 \/ digs = {} THEN NaN
       ELSE LET whole == {i \in digs : \A j \in seps : i < j}
                frac  == digs \ whole
            IN Dec(DigitsValue(text, whole) * Pow10(Cardinality(frac))
                      + DigitsValue(text, frac),
                   Cardinality(frac))

\* C10: for every raw text, convertNumber_ in a locale with decimal separator
\* s returns the number obtained by deleting every character that is neither
\* a digit nor s, replacing s by a period and parsing the result as a
\* decimal; "1 234,56" with the decimal comma and "1,234.56" with the decimal
\* point both give 1234.56.
C10_ConvertNumber ==
    conv.done =>
        /\ locale = huHU => conv.out = Returned(ExpectedNumber(numStr, ","))
        /\ locale = enUS => conv.out = Returned(ExpectedNumber(numStr, "."))
        /\ (locale = huHU /\ numStr = <<"1", " ", "2", "3", "4", ",", "5", "6">>) =>
              conv.out.val = [nan |-> FALSE, m |-> 123456, e |-> 2]
        /\ (locale = enUS /\ numStr = <<"1", ",", "2", "3", "4", ".", "5", "6">>) =>
              conv.out.val = [nan |-> FALSE, m |-> 123456, e |-> 2]

\* "1 234,56" was converted with the decimal comma
C10_Witness ==
    /\ conv.done
    /\ locale = huHU
    /\ numStr = <<"1", " ", "2", "3", "4", ",", "5", "6">>
    /\ conv.out.ok

\* C11: the selector position is 24 for GBP, 71 for USD and 21 for EUR,
\* three different columns; an mnb call whose currency is none of the three
\* fails with the unreachable-case error once its first page has arrived and
\* the selector is looked up, and it neither returns nor caches a quote.
C11_SelectorPositions ==
    /\ priceSelector_(GBP) = [ok |-> TRUE, index |-> 24, err |-> ""]
    /\ priceSelector_(USD) = [ok |-> TRUE, index |-> 71, err |-> ""]
    /\ priceSelector_(EUR) = [ok |-> TRUE, index |-> 21, err |-> ""]
    /\ \A p \in Procs :
          LET me == inv[p]
          IN (me.fn = "mnb" /\ me.currency \notin {GBP, USD, EUR}) =>
                /\ ~me.returned
                /\ me.puts = <<>>
                /\ cache = me.cacheAtCall
                /\ me.served = <<>>
                /\ (me.replies # <<>> /\ ~me.replies[1].failed) =>
                      /\ me.pc = "failed"
                      /\ me.error = Unreachable
                      /\ Len(me.fetched) = 1

\* the first page of an mnb call for CHF arrived and the call failed
C11_Witness ==
    \E p \in Procs :
        /\ inv[p].fn = "mnb" /\ inv[p].currency = CHF
        /\ inv[p].replies # <<>> /\ ~inv[p].replies[1].failed
        /\ inv[p].pc = "failed"

\* C12: when the locale's rendering of 0.1 is not 0, one separator
\* character, 1, convertNumber_ throws for every text and takes no default
\* separator; in mnb and crypto the error ends the call, which returns
\* nothing and leaves the cache as it was.
C12_LocaleFormatError ==
    /\ (conv.done /\ ~MatchesTenth(FormatTenth(locale))) =>
          conv.out = [ok |-> FALSE, val |-> Zero, err |-> ConversionError]
    /\ \A p \in Procs :
          LET me == inv[p]
              gotText  == me.replies # <<>> /\ ~me.replies[Len(me.replies)].failed
              usedEnUS == me.hit \/ (me.fn = "crypto" /\ gotText)
              usedHuHU == /\ me.fn = "mnb" /\ ~me.hit /\ gotText
                          /\ me.currency \in {GBP, USD, EUR}
          IN (\/ usedEnUS /\ ~MatchesTenth(FormatTenth(enUS))
              \/ usedHuHU /\ ~MatchesTenth(FormatTenth(huHU))) =>
                /\ me.pc = "failed"
                /\ me.error = ConversionError
                /\ ~me.returned
                /\ me.puts = <<>>
                /\ cache = me.cacheAtCall

\* US English numbers are rendered with other digits: an mnb call found the
\* entry of an earlier call and failed converting it
C12_Witness ==
    \E p \in Procs :
        /\ inv[p].fn = "mnb" /\ inv[p].hit /\ inv[p].pc = "failed"
        /\ inv[p].error = ConversionError
        /\ enUS \in nonLatin

\* C13: within one mnb call the k-th fetch is for the first candidate date
\* minus k-1 calendar days, whatever the day of the week (after a Monday come
\* the Sunday and the Saturday), and no date is fetched twice.
C13_OneCalendarDayBack ==
    \A p \in Procs :
        LET me == inv[p]
        IN me.fn = "mnb" =>
              /\ \A k \in DOMAIN me.fetched :
                    me.fetched[k] =
                        MnbUrl(Render(CivilMinus(FirstCandidate(me.dateStr), k - 1)))
              /\ \A j, k \in DOMAIN me.fetched :
                    j # k => me.fetched[j] # me.fetched[k]

\* a Monday, the Sunday before it and the Saturday before that were fetched
C13_Witness ==
    \E p \in Procs :
        /\ inv[p].fn = "mnb" /\ Len(inv[p].fetched) = 3
        /\ DayOfWeek(CivilOf(inv[p].fetched[1].tail)) = 1
        /\ DayOfWeek(CivilOf(inv[p].fetched[2].tail)) = 0
        /\ DayOfWeek(CivilOf(inv[p].fetched[3].tail)) = 6

\* C14: on the exchange-rate path a page from which no text is extracted
\* reads as zero and is taken for a holiday: the call neither returns nor
\* caches nor fails on it, it moves the candidate to the previous calendar
\* day, and the next fetch is for that day.
C14_EmptyExtractionIsHoliday ==
    \A p \in Procs :
        LET me == inv[p]
        IN me.fn = "mnb" /\ me.currency \in {GBP, USD, EUR} =>
              \A i \in DOMAIN me.replies :
                 me.replies[i] = FetchGave(<<>>) =>
                    LET dayBefore ==
                          Render(PrevCivil(CivilOf(me.fetched[i].tail)))
                    IN /\ i \in DOMAIN me.served /\ me.served[i] = Zero
                       /\ i = Len(me.replies) =>
                             /\ me.pc = "loop" /\ me.error = ""
                             /\ ~me.returned /\ me.puts = <<>>
                             /\ cache = me.cacheAtCall
                             /\ me.weekdayDateOrHolidayStr = dayBefore
                       /\ i < Len(me.replies) =>
                             /\ i + 1 \in DOMAIN me.fetched
                             /\ me.fetched[i + 1] = MnbUrl(dayBefore)

\* an empty page, then the page of the day before with a rate, returned
C14_Witness ==
    \E p \in Procs :
        /\ inv[p].fn = "mnb" /\ inv[p].pc = "done" /\ ~inv[p].hit
        /\ Len(inv[p].replies) = 2
        /\ inv[p].replies[1] = FetchGave(<<>>)
        /\ inv[p].result # Zero /\ ~inv[p].result.nan

\* the keys mnb can write, and the keys crypto can write
MnbKeys ==
    {MnbCacheKey(currency, dateStr) : currency \in {GBP, USD, EUR}, dateStr \in DateInputs}

CryptoKeys == {CryptoCacheKey(name) : name \in NameInputs}

\* C16: no key mnb writes for GBP, USD or EUR equals a key crypto writes,
\* whatever the asset name, so every entry is under a key of the function
\* that put it and a look-up that finds an entry finds one its own function
\* put.
C16_KeysApart ==
    /\ MnbKeys \cap CryptoKeys = {}
    /\ \A k \in DOMAIN cache :
          /\ cache[k].by = "mnb" => k \in MnbKeys /\ k \notin CryptoKeys
          /\ cache[k].by = "crypto" => k \in CryptoKeys /\ k \notin MnbKeys
    /\ \A p \in Procs :
          LET me == inv[p]
          IN me.hit => me.cacheAtCall[me.cacheKey].by = me.fn

\* crypto is asked for a name that reads as a key of mnb while the cache
\* holds the entry mnb put under that key, and misses
C16_Witness ==
    \E p \in Procs :
        /\ inv[p].fn = "crypto" /\ ~inv[p].hit /\ inv[p].pc = "cfetch"
        /\ inv[p].hyphenedName \in DOMAIN cache
        /\ cache[inv[p].hyphenedName].by = "mnb"

\* C15: whatever the fetched pages read, no entry mnb put holds a zero
\* quote, and no mnb call returns zero, be it answered from its fetches or
\* from the cache.
C15_NoZeroQuote ==
    /\ \A k \in DOMAIN cache : cache[k].by = "mnb" => cache[k].quote # Zero
    /\ \A p \in Procs :
          LET me == inv[p]
          IN (me.fn = "mnb" /\ me.returned) => me.result # Zero

\* the texts the invocation p has put under key
PutValues(p, key) ==
    {inv[p].puts[i].value : i \in {j \in DOMAIN inv[p].puts : inv[p].puts[j].key = key}}

\* C17: two mnb invocations for the same currency and date run at the same
\* time.  Each one that returns, returns a quote that is not zero and is
\* either the quote of the entry it found or the quote of its own last
\* fetch; once both have ended, the entry under their key, if there is one,
\* holds a text one of them has put.
C17_ConcurrentSameKey ==
    \A p, q \in Procs :
        LET me    == inv[p]
            other == inv[q]
        IN (/\ p # q /\ me.fn = "mnb" /\ other.fn = "mnb"
            /\ me.cacheKey = other.cacheKey) =>
              /\ me.returned =>
                    /\ me.result # Zero
                    /\ me.hit => me.result = me.cacheAtCall[me.cacheKey].quote
                    /\ ~me.hit => /\ me.served # <<>>
                                  /\ me.result = me.served[Len(me.served)]
              /\ (Finished(p) /\ Finished(q) /\ me.cacheKey \in DOMAIN cache) =>
                    cache[me.cacheKey].value
                        \in PutValues(p, me.cacheKey) \cup PutValues(q, me.cacheKey)

=============================================================================
